---------------------------- MODULE Spec2Model ----------------------------
(***************************************************************************)
(* Model of the note-taking application's data model, src/app/models.py:   *)
(* the User, Tag, Note and NoteTags tables as the ORM declarations define  *)
(* them, the two User password methods and the load_user callback.         *)
(*                                                                         *)
(* A table is a function from primary key to row (user, tag, note) or a    *)
(* bag of rows (note_tags), so that a duplicate is something a state can   *)
(* hold and only the declared constraints keep out.  NULL columns hold the *)
(* value NULL.  The columns creation_date, country and time_zone of User   *)
(* are written once from their defaults and read by nothing here; they are *)
(* left out of the row.                                                    *)
(***************************************************************************)
EXTENDS Integers, Sequences, FiniteSets, Bags

VARIABLES
    user,        \* table user:  id -> [username, email, password_hash]
    note,        \* table note:  id -> [user_id, title, note, note_date,
                 \*                     last_edited, reminder_date, already_reminded]
    tag,         \* table tag:   id -> [tag]
    note_tags,   \* table note_tags: bag of [note_id, tag_id]
    clock,       \* the reading datetime.utcnow() returns
    next_id,     \* [user, note, tag]: next autoincrement key of each table
    last         \* the last operation: [op, id, arg, res]

vars == <<user, note, tag, note_tags, clock, next_id, last>>

-----------------------------------------------------------------------------
(* Bounds of the model *)

MaxUsers == 2
MaxNotes == 2
MaxTags == 2
MaxClock == 1
MaxIdLen == 2
NumSalts == 2
MaxPwLen == 2

NULL == -1

Usernames == {"ann", "bob", "cy"}
Emails == {"a@x", "b@x", "c@x"}
Salts == 1..NumSalts
Titles == {"t1", "t2"}
Bodies == {"b1"}
Labels == {"urgent", "work", "home"}
Times == 0..MaxClock

\* Characters a session identifier is drawn from.
IdChars == {"0", "1", "2", "a", "-", "+", " ", "_"}

RECURSIVE SeqsUpTo(_, _)
SeqsUpTo(S, n) ==
    IF n = 0 THEN {<<>>}
    ELSE LET shorter == SeqsUpTo(S, n - 1)
         IN  shorter \cup {Append(s, c) : s \in {t \in shorter : Len(t) = n - 1}, c \in S}

IdStrings == SeqsUpTo(IdChars, MaxIdLen)

Op(op, id, arg, res) == [op |-> op, id |-> id, arg |-> arg, res |-> res]

-----------------------------------------------------------------------------
(* werkzeug.security as models.py uses it.  A password is a sequence of     *)
(* characters, "NUL" being the character of code 0.  A password hash is the *)
(* triple method$salt$digest.  The library's slow hash (PBKDF2 and scrypt   *)
(* alike) uses the password as the key of HMAC-SHA256, and HMAC brings its  *)
(* key to one block: a key longer than the block is replaced by its SHA-256 *)
(* digest, then the key is padded with zero bytes.  Two passwords with the  *)
(* same block have the same digest under every salt; beyond that the digest *)
(* is the symbolic term of the salt and the block.                          *)

Method == "pbkdf2:sha256"

\* HMAC-SHA256: block size and digest size, in bytes.
BlockSize == 64
DigestSize == 32

\* A byte string is a sequence of tokens: a character is one byte, and the
\* tokens from "sha256(" to its matching ")" are together the DigestSize bytes
\* of the SHA-256 digest of the byte string between them.  Sha(s) is that
\* digest: an opaque block that is a different byte string for every s.
Sha(s) == <<"sha256(">> \o s \o <<")">>

\* The number of digests open at token i of s.
Depth(s, i) ==
    Cardinality({j \in 1..(i - 1) : s[j] = "sha256("})
        - Cardinality({j \in 1..(i - 1) : s[j] = ")"})

\* Length in bytes: a character outside every digest counts one, a digest
\* counts DigestSize whatever it is the digest of.
ByteLen(s) ==
    LET outer == {i \in 1..Len(s) : Depth(s, i) = 0 /\ s[i] # ")"}
        digests == {i \in outer : s[i] = "sha256("}
    IN  Cardinality(outer \ digests) + DigestSize * Cardinality(digests)

\* Padding with zero bytes to a block makes the trailing zero bytes of the
\* key itself immaterial.  A digest ends with its ")" token: what it is the
\* digest of is never touched.
RECURSIVE StripNul(_)
StripNul(s) ==
    IF s # <<>> /\ s[Len(s)] = "NUL" THEN StripNul(SubSeq(s, 1, Len(s) - 1))
    ELSE s

HmacKey(password) ==
    StripNul(IF ByteLen(password) > BlockSize THEN Sha(password) ELSE password)

Digest(salt, password) == <<"H", salt, HmacKey(password)>>

\* Passwords: the short ones over two characters, one longer than an HMAC
\* block, the same with a zero byte after it, and the byte string that is
\* the SHA-256 digest of the long one.
PwChars == {"p", "NUL"}

LongPassword == [i \in 1..(BlockSize + 1) |-> "p"]

Passwords ==
    SeqsUpTo(PwChars, MaxPwLen)
        \cup {LongPassword, Append(LongPassword, "NUL"), Sha(LongPassword)}

generate_password_hash(password, salt) == <<Method, salt, Digest(salt, password)>>

check_password_hash(pwhash, password) ==
    IF Len(pwhash) < 3 THEN FALSE
    ELSE Digest(pwhash[2], password) = pwhash[3]

NoHash == <<>>

-----------------------------------------------------------------------------
(* int(id): surrounding whitespace is stripped, one sign may lead, then     *)
(* decimal digits with single underscores between digits.                   *)

IsDigit(c) == c \in {"0", "1", "2"}

DigitVal(c) == CASE c = "0" -> 0 [] c = "1" -> 1 [] c = "2" -> 2 [] OTHER -> 0

RECURSIVE Strip(_)
Strip(s) ==
    IF s = <<>> THEN s
    ELSE IF Head(s) = " " THEN Strip(Tail(s))
    ELSE IF s[Len(s)] = " " THEN Strip(SubSeq(s, 1, Len(s) - 1))
    ELSE s

Unsigned(s) == IF s # <<>> /\ Head(s) \in {"+", "-"} THEN Tail(s) ELSE s

IsNegative(s) == s # <<>> /\ Head(s) = "-"

ValidDigits(d) ==
    /\ d # <<>>
    /\ \A i \in 1..Len(d) : IsDigit(d[i]) \/ d[i] = "_"
    /\ IsDigit(d[1]) /\ IsDigit(d[Len(d)])
    /\ \A i \in 1..Len(d) : d[i] = "_" => IsDigit(d[i - 1]) /\ IsDigit(d[i + 1])

RECURSIVE DigitsValue(_, _)
DigitsValue(d, acc) ==
    IF d = <<>> THEN acc
    ELSE IF Head(d) = "_" THEN DigitsValue(Tail(d), acc)
    ELSE DigitsValue(Tail(d), 10 * acc + DigitVal(Head(d)))

IntValid(s) == ValidDigits(Unsigned(Strip(s)))

IntValue(s) ==
    LET t == Strip(s)
        v == DigitsValue(Unsigned(t), 0)
    IN  IF IsNegative(t) THEN 0 - v ELSE v

-----------------------------------------------------------------------------
(* User *)

UserRow(username, email) ==
    [username |-> username, email |-> email, password_hash |-> NoHash]

\* (variant: only the username is unique)
UserUniqueByName(id, row) ==
    \A o \in DOMAIN user \ {id} : user[o].username # row.username

\* unique=True on username and on email: the row `row`, stored under key
\* `id`, collides with no other stored row.
UserUnique(id, row) ==
    \A o \in DOMAIN user \ {id} :
        user[o].username # row.username /\ user[o].email # row.email

RegisterUser(username, email) ==
    /\ LET id == next_id.user
           row == UserRow(username, email)
       IN  IF UserUnique(id, row)
           THEN /\ user' = [k \in DOMAIN user \cup {id} |->
                               IF k = id THEN row ELSE user[k]]
                /\ next_id' = [next_id EXCEPT !.user = id + 1]
                /\ last' = Op("add_user", id, <<>>, "ok")
           ELSE /\ UNCHANGED <<user, next_id>>
                /\ last' = Op("add_user", 0, <<>>, "IntegrityError")
    /\ UNCHANGED <<note, tag, note_tags, clock>>

UpdateUser(id, username, email) ==
    /\ id \in DOMAIN user
    /\ LET row == [user[id] EXCEPT !.username = username, !.email = email]
       IN  IF UserUnique(id, row)
           THEN /\ user' = [user EXCEPT ![id] = row]
                /\ last' = Op("update_user", id, <<>>, "ok")
           ELSE /\ UNCHANGED user
                /\ last' = Op("update_user", id, <<>>, "IntegrityError")
    /\ UNCHANGED <<note, tag, note_tags, clock, next_id>>

\* set_password overwrites the stored hash; `salt` is the salt the library
\* draws.
set_password(row, password, salt) ==
    [row EXCEPT !.password_hash = generate_password_hash(password, salt)]

\* check_password returns the library's verdict; with no hash stored the
\* library is handed None and raises AttributeError.
check_password(row, password) ==
    IF row.password_hash = NoHash THEN "AttributeError"
    ELSE IF check_password_hash(row.password_hash, password) THEN "True"
    ELSE "False"

SetPassword(id, password) ==
    /\ id \in DOMAIN user
    /\ \E salt \in Salts : user' = [user EXCEPT ![id] = set_password(user[id], password, salt)]
    /\ last' = Op("set_password", id, password, "ok")
    /\ UNCHANGED <<note, tag, note_tags, clock, next_id>>

CheckPassword(id, password) ==
    /\ id \in DOMAIN user
    /\ last' = Op("check_password", id, password, check_password(user[id], password))
    /\ UNCHANGED <<user, note, tag, note_tags, clock, next_id>>

\* load_user(id): int(id) raises ValueError for a malformed id, and nothing
\* in load_user catches it; Query.get returns the row or None.
load_user(id) ==
    IF ~IntValid(id) THEN [res |-> "ValueError", id |-> 0]
    ELSE IF IntValue(id) \in DOMAIN user THEN [res |-> "User", id |-> IntValue(id)]
    ELSE [res |-> "None", id |-> 0]

LoadUser(id) ==
    /\ last' = Op("load_user", load_user(id).id, id, load_user(id).res)
    /\ UNCHANGED <<user, note, tag, note_tags, clock, next_id>>

-----------------------------------------------------------------------------
(* Note, Tag, NoteTags *)

\* datetime.utcnow(): the wall clock, which does not run backwards here.
Tick ==
    /\ clock + 1 \in Times
    /\ clock' = clock + 1
    /\ last' = Op("tick", 0, <<>>, "ok")
    /\ UNCHANGED <<user, note, tag, note_tags, next_id>>

\* (variant: last_edited reads the clock before note_date)
NewNoteSwapped(user_id, title, body, first_now, second_now) ==
    [user_id |-> user_id, title |-> title, note |-> body,
     note_date |-> second_now, last_edited |-> first_now,
     reminder_date |-> NULL, already_reminded |-> FALSE]

\* (variant: already_reminded defaults to True)
NewNoteReminded(user_id, title, body, first_now, second_now) ==
    [user_id |-> user_id, title |-> title, note |-> body,
     note_date |-> first_now, last_edited |-> second_now,
     reminder_date |-> NULL, already_reminded |-> TRUE]

\* The row an insert of Note(user_id, title, note) stores.  The column
\* defaults are evaluated in column order: note_date reads the clock first
\* (first_now), last_edited second (second_now); reminder_date is NULL and
\* already_reminded False.
NewNote(user_id, title, body, first_now, second_now) ==
    [user_id |-> user_id, title |-> title, note |-> body,
     note_date |-> first_now, last_edited |-> second_now,
     reminder_date |-> NULL, already_reminded |-> FALSE]

CreateNote(user_id, title, body) ==
    /\ user_id \in DOMAIN user
    /\ \E elapsed \in {0, 1} :
          /\ clock + elapsed \in Times
          /\ clock' = clock + elapsed
          /\ note' = [k \in DOMAIN note \cup {next_id.note} |->
                         IF k = next_id.note
                         THEN NewNote(user_id, title, body, clock, clock + elapsed)
                         ELSE note[k]]
    /\ next_id' = [next_id EXCEPT !.note = next_id.note + 1]
    /\ last' = Op("add_note", next_id.note, <<>>, "ok")
    /\ UNCHANGED <<user, tag, note_tags>>

\* (variant: the edit also clears already_reminded)
EditedAndReset(row, title, body, now) ==
    [row EXCEPT !.title = title, !.note = body, !.last_edited = now,
                !.already_reminded = FALSE]

\* The edit operation: title and body are assigned and the caller refreshes
\* last_edited from the clock.
Edited(row, title, body, now) ==
    [row EXCEPT !.title = title, !.note = body, !.last_edited = now]

EditNote(id, title, body) ==
    /\ id \in DOMAIN note
    /\ note' = [note EXCEPT ![id] = Edited(note[id], title, body, clock)]
    /\ last' = Op("edit_note", id, <<>>, "ok")
    /\ UNCHANGED <<user, tag, note_tags, clock, next_id>>

\* The reminder-scheduling collaborator: a reminder is (re)created by
\* assigning a reminder_date, which rearms the latch.
SetReminder(id, when) ==
    /\ id \in DOMAIN note
    /\ when # NULL
    /\ note' = [note EXCEPT ![id].reminder_date = when,
                            ![id].already_reminded = FALSE]
    /\ last' = Op("set_reminder", id, <<>>, "ok")
    /\ UNCHANGED <<user, tag, note_tags, clock, next_id>>

\* The reminder-firing collaborator: a due reminder is delivered once.
ReminderDue(row, now) ==
    /\ row.reminder_date # NULL
    /\ row.reminder_date <= now
    /\ ~row.already_reminded

FireReminder(id) ==
    /\ id \in DOMAIN note
    /\ ReminderDue(note[id], clock)
    /\ note' = [note EXCEPT ![id].already_reminded = TRUE]
    /\ last' = Op("fire_reminder", id, <<>>, "ok")
    /\ UNCHANGED <<user, tag, note_tags, clock, next_id>>

NoteTagsRow(note_id, tag_id) == [note_id |-> note_id, tag_id |-> tag_id]

Rows == BagToSet(note_tags)

\* (variant: the rows are not restricted to the note)
TagsOfNoteUnfiltered(id) == note_tags

\* Note.tags: the NoteTags rows of note `id` (a bag: row -> copies).
TagsOfNote(id) ==
    [r \in {x \in Rows : x.note_id = id} |-> note_tags[r]]

\* (variant: no primary key on note_tags)
PrimaryKeyUnchecked(row) == TRUE

\* The composite primary key (note_id, tag_id): an insert of `row` is
\* accepted only when no stored row has its key.
PrimaryKeyFree(row) == ~BagIn(row, note_tags)

\* The Tag rows labelled `label`.
TagsLabelled(label) == {t \in DOMAIN tag : tag[t].tag = label}

Least(S) == CHOOSE x \in S : \A y \in S : x <= y

\* Tagging note `id` with `label`: the Tag row of that label is looked up
\* and created when the label is unseen, then the NoteTags row is inserted.
AttachTag(id, label) ==
    /\ id \in DOMAIN note
    /\ LET seen == TagsLabelled(label) # {}
           t == IF seen THEN Least(TagsLabelled(label)) ELSE next_id.tag
           row == NoteTagsRow(id, t)
       IN  IF PrimaryKeyFree(row)
           THEN /\ tag' = IF seen THEN tag
                          ELSE [k \in DOMAIN tag \cup {t} |->
                                   IF k = t THEN [tag |-> label] ELSE tag[k]]
                /\ next_id' = IF seen THEN next_id
                              ELSE [next_id EXCEPT !.tag = t + 1]
                /\ note_tags' = note_tags (+) SetToBag({row})
                /\ last' = Op("attach_tag", id, <<label>>, "ok")
           ELSE /\ UNCHANGED <<tag, next_id, note_tags>>
                /\ last' = Op("attach_tag", id, <<label>>, "IntegrityError")
    /\ UNCHANGED <<user, note, clock>>

DetachTag(row) ==
    /\ BagIn(row, note_tags)
    /\ note_tags' = note_tags (-) SetToBag({row})
    /\ last' = Op("detach_tag", row.note_id, <<>>, "ok")
    /\ UNCHANGED <<user, note, tag, clock, next_id>>

\* session.delete(note).  Note.tags declares no delete cascade, so the unit
\* of work tries to set note_id of each NoteTags row of the note to NULL;
\* note_id is a primary key column and the flush raises AssertionError,
\* leaving the store as it was.  A note without rows is deleted.
DeleteNote(id) ==
    /\ id \in DOMAIN note
    /\ IF TagsOfNote(id) = EmptyBag
       THEN /\ note' = [k \in DOMAIN note \ {id} |-> note[k]]
            /\ last' = Op("delete_note", id, <<>>, "ok")
       ELSE /\ UNCHANGED note
            /\ last' = Op("delete_note", id, <<>>, "AssertionError")
    /\ UNCHANGED <<user, tag, note_tags, clock, next_id>>

\* session.delete(user).  User.user_notes declares no delete cascade, so
\* the unit of work sets user_id of each of the user's notes to NULL, which
\* the nullable column accepts, and deletes the user row.
DeleteUser(id) ==
    /\ id \in DOMAIN user
    /\ user' = [k \in DOMAIN user \ {id} |-> user[k]]
    /\ note' = [k \in DOMAIN note |->
                   IF note[k].user_id = id
                   THEN [note[k] EXCEPT !.user_id = NULL]
                   ELSE note[k]]
    /\ last' = Op("delete_user", id, <<>>, "ok")
    /\ UNCHANGED <<tag, note_tags, clock, next_id>>

-----------------------------------------------------------------------------

EmptyTable == [k \in {} |-> 0]

Init ==
    /\ user = EmptyTable
    /\ note = EmptyTable
    /\ tag = EmptyTable
    /\ note_tags = EmptyBag
    /\ clock = 0
    /\ next_id = [user |-> 1, note |-> 1, tag |-> 1]
    /\ last = Op("init", 0, <<>>, "ok")

(* The stores are capped in the next-state relations: the code has no cap. *)

Ann == <<"ann", "a@x">>
Bob == <<"bob", "b@x">>

UsersLeft == next_id.user <= MaxUsers
NotesLeft == next_id.note <= MaxNotes
TagsLeft == next_id.tag <= MaxTags

NextUsers ==
    \/ UsersLeft /\ \E u \in Usernames, e \in Emails : RegisterUser(u, e)
    \/ \E id \in DOMAIN user, u \in Usernames, e \in Emails : UpdateUser(id, u, e)
    \/ \E id \in DOMAIN user : DeleteUser(id)

SpecUsers == Init /\ [][NextUsers]_vars

NextAuth ==
    \/ UsersLeft /\ \E p \in {Ann, Bob} : RegisterUser(p[1], p[2])
    \/ \E id \in DOMAIN user, p \in Passwords : SetPassword(id, p)
    \/ \E id \in DOMAIN user, p \in Passwords : CheckPassword(id, p)

SpecAuth == Init /\ [][NextAuth]_vars

NextLoad ==
    \/ UsersLeft /\ \E u \in Usernames, e \in Emails : RegisterUser(u, e)
    \/ \E id \in IdStrings : LoadUser(id)

SpecLoad == Init /\ [][NextLoad]_vars

NextEdit ==
    \/ UsersLeft /\ \E p \in {Ann, Bob} : RegisterUser(p[1], p[2])
    \/ Tick
    \/ NotesLeft /\ \E id \in DOMAIN user, t \in Titles, b \in Bodies : CreateNote(id, t, b)
    \/ \E id \in DOMAIN note, t \in Titles, b \in Bodies : EditNote(id, t, b)

SpecEdit == Init /\ [][NextEdit]_vars

NextRemind ==
    \/ UsersLeft /\ RegisterUser(Ann[1], Ann[2])
    \/ Tick
    \/ NotesLeft /\ \E id \in DOMAIN user, b \in Bodies : CreateNote(id, "t1", b)
    \/ \E id \in DOMAIN note, b \in Bodies : EditNote(id, "t2", b)
    \/ \E id \in DOMAIN note, w \in Times : SetReminder(id, w)
    \/ \E id \in DOMAIN note : FireReminder(id)

SpecRemind == Init /\ [][NextRemind]_vars

NextTags ==
    \/ UsersLeft /\ RegisterUser(Ann[1], Ann[2])
    \/ NotesLeft /\ \E id \in DOMAIN user, b \in Bodies : CreateNote(id, "t1", b)
    \/ \E id \in DOMAIN note, l \in Labels :
          (TagsLabelled(l) = {} => TagsLeft) /\ AttachTag(id, l)
    \/ \E r \in Rows : DetachTag(r)
    \/ \E id \in DOMAIN note : DeleteNote(id)

SpecTags == Init /\ [][NextTags]_vars

NextOwner ==
    \/ UsersLeft /\ \E p \in {Ann, Bob} : RegisterUser(p[1], p[2])
    \/ \E id \in DOMAIN user : DeleteUser(id)
    \/ NotesLeft /\ \E id \in DOMAIN user, b \in Bodies : CreateNote(id, "t1", b)
    \/ \E id \in DOMAIN note : DeleteNote(id)

SpecOwner == Init /\ [][NextOwner]_vars

Next == NextUsers \/ NextAuth \/ NextLoad \/ NextEdit \/ NextRemind \/ NextTags \/ NextOwner

Spec == Init /\ [][Next]_vars

-----------------------------------------------------------------------------
(* Properties *)

\* C1 (the part the code keeps): directly after set_password(p),
\* check_password(q) is true exactly for the q that HMAC brings to the same
\* key block as p (p itself among them), whatever came before.
LatestPasswordDecidesUpToKey ==
    last.op = "set_password" =>
        \A q \in Passwords :
            check_password(user[last.id], q) =
                (IF HmacKey(q) = HmacKey(last.arg) THEN "True" ELSE "False")

\* C1: directly after set_password(p) on a user, check_password(p) is true
\* and check_password(q) is false for every q other than p, whatever
\* set_password calls came before on that user.
C1_LatestPasswordDecides ==
    last.op = "set_password" =>
        \A q \in Passwords :
            check_password(user[last.id], q) =
                (IF q = last.arg THEN "True" ELSE "False")

UniqueUsers ==
    \A a, b \in DOMAIN user :
        a # b => /\ user[a].username # user[b].username
                 /\ user[a].email # user[b].email

InsertRespectsUnique ==
    last'.op = "add_user" =>
        IF last'.res = "IntegrityError"
        THEN user' = user
        ELSE /\ DOMAIN user' = DOMAIN user \cup {last'.id}
             /\ last'.id \notin DOMAIN user
             /\ \A o \in DOMAIN user :
                   /\ user'[o] = user[o]
                   /\ user[o].username # user'[last'.id].username
                   /\ user[o].email # user'[last'.id].email

\* C2: no two stored users share a username or share an email; an insert
\* of a user whose username or email is already stored fails with
\* IntegrityError and leaves the user table as it was.
C2_UsernameEmailUnique == []UniqueUsers /\ [][InsertRespectsUnique]_vars

\* C2 witness: with a user stored, an insert was refused.
C2_Witness ==
    /\ last.op = "add_user"
    /\ last.res = "IntegrityError"
    /\ DOMAIN user # {}

\* C3 (the part the code keeps): a well-formed id resolves to the stored
\* user of that key, or to None when no user has it.
LoadUserResolves ==
    last.op = "load_user" /\ IntValid(last.arg) =>
        IF IntValue(last.arg) \in DOMAIN user
        THEN last.res = "User" /\ last.id = IntValue(last.arg)
        ELSE last.res = "None"

\* C3: load_user(id) returns the user of key int(id), None when there is
\* none, and for an id that is no integer no exception leaves load_user
\* unhandled.
C3_LoadUserContract ==
    /\ LoadUserResolves
    /\ last.op = "load_user" /\ ~IntValid(last.arg) => last.res # "ValueError"

\* C4: deleting note n leaves no NoteTags row of n, every Tag row, and the
\* NoteTags rows of the other notes as they were.
C4_DeleteNoteCascades ==
    [][last'.op = "delete_note" =>
          /\ \A r \in BagToSet(note_tags') : r.note_id # last'.id
          /\ tag' = tag
          /\ \A r \in Rows :
                r.note_id # last'.id => CopiesIn(r, note_tags') = CopiesIn(r, note_tags)
      ]_vars

\* Copies of tag t in a collection of NoteTags rows.
TagCopies(coll, t) ==
    BagCardinality([r \in {x \in BagToSet(coll) : x.tag_id = t} |-> coll[r]])

HasLabel(n, l) == \E r \in Rows : r.note_id = n /\ tag[r.tag_id].tag = l

\* C5: one label attached to two different notes is one Tag row and two
\* NoteTags rows that reference it; a note's tag collection holds a tag at
\* most once.
C5_SharedTagNotDuplicated ==
    /\ \A l \in Labels, n1, n2 \in DOMAIN note :
          n1 # n2 /\ HasLabel(n1, l) /\ HasLabel(n2, l) =>
              \E t \in DOMAIN tag :
                  /\ TagsLabelled(l) = {t}
                  /\ CopiesIn(NoteTagsRow(n1, t), note_tags) = 1
                  /\ CopiesIn(NoteTagsRow(n2, t), note_tags) = 1
    /\ \A n \in DOMAIN note, t \in DOMAIN tag : TagCopies(TagsOfNote(n), t) <= 1

\* C5 witness: two notes carry the tag labelled "urgent".
C5_Witness ==
    /\ last.op = "attach_tag"
    /\ \E n1, n2 \in DOMAIN note :
          n1 # n2 /\ HasLabel(n1, "urgent") /\ HasLabel(n2, "urgent")

EditedLater ==
    last'.op = "edit_note" =>
        /\ note'[last'.id].last_edited >= note[last'.id].last_edited
        /\ \/ note'[last'.id].last_edited > note[last'.id].last_edited
           \/ clock' = note[last'.id].last_edited

\* C6: every note has last_edited >= note_date, from its creation on; an
\* edit leaves last_edited at least what it was, and greater unless the
\* clock still reads that value.
C6_LastEditedMonotone ==
    /\ [](\A n \in DOMAIN note : note[n].last_edited >= note[n].note_date)
    /\ [][EditedLater]_vars

\* C6 witness: a note was edited after the clock moved on.
C6_Witness ==
    /\ last.op = "edit_note"
    /\ note[last.id].last_edited > note[last.id].note_date

\* C7: a note with already_reminded set has a reminder_date, and it is not
\* later than the clock; a note just created has already_reminded false.
C7_RemindedOnlyWhenDue ==
    /\ \A n \in DOMAIN note :
          note[n].already_reminded =>
              note[n].reminder_date # NULL /\ note[n].reminder_date <= clock
    /\ last.op = "add_note" => ~note[last.id].already_reminded

\* C7 witness: a reminder was delivered before the clock last moved.
C7_Witness ==
    \E n \in DOMAIN note :
        note[n].already_reminded /\ note[n].reminder_date < clock

\* C8: already_reminded goes from true to false only in the step that
\* recreates the note's reminder, that is, a set_reminder on that note that
\* leaves it with a reminder_date; no edit and no other operation resets it.
C8_ReminderLatch ==
    [][\A n \in DOMAIN note \cap DOMAIN note' :
          note[n].already_reminded /\ ~note'[n].already_reminded =>
              /\ last'.op = "set_reminder"
              /\ last'.id = n
              /\ note'[n].reminder_date # NULL
      ]_vars

\* C8 witness: a note was edited with its reminder already delivered.
C8_Witness ==
    /\ last.op = "edit_note"
    /\ note[last.id].already_reminded
    /\ note[last.id].title = "t2"

\* C9: every stored note has a user_id, and it is the key of a stored user.
C9_NoteHasAuthor ==
    \A n \in DOMAIN note :
        note[n].user_id # NULL /\ note[n].user_id \in DOMAIN user

\* C10: no NoteTags row is stored twice; attaching a tag a note already
\* has stores no second row.
C10_NoDuplicateNoteTags ==
    \A r \in Rows : CopiesIn(r, note_tags) = 1

\* C10 witness: an attach of a tag the note already has was refused.
C10_Witness ==
    /\ last.op = "attach_tag"
    /\ last.res = "IntegrityError"
    /\ \E r \in Rows : r.note_id = last.id

=============================================================================
